---------------------------- MODULE Spec2Model ----------------------------
(***************************************************************************)
(* Vigilus: the detection core (core/detect.py) over the SQLite store      *)
(* (core/db.py).  Raw items enter the store through insert_raw_item;       *)
(* run_detection reads the checkpoint meta["last_processed_raw_item_id"],  *)
(* fetches a batch of raw items above it, scores each item, writes an      *)
(* event and a source link for every accepted item and finally writes the  *)
(* checkpoint.  Every db.py helper opens its own connection and commits,   *)
(* so every store call is one atomic step of its own.                      *)
(***************************************************************************)
EXTENDS Integers, Sequences, FiniteSets, TLC

(***************************************************************************)
(* Python values.  An optional value (None or a value) is a sequence of    *)
(* length 0 or 1; text is a TLA+ string, which TLC treats as a sequence of *)
(* characters (Len, SubSeq and \o apply to it).                            *)
(***************************************************************************)
None == <<>>

Some(v) == <<v>>

OrEmpty(o) == IF o = None THEN "" ELSE o[1]

Min2(a, b) == IF a <= b THEN a ELSE b

Max2(a, b) == IF a >= b THEN a ELSE b

CharAt(s, i) == SubSeq(s, i, i)

\* s[:n]
Take(s, n) == SubSeq(s, 1, Min2(n, Len(s)))

UpperCase == "ABCDEFGHIJKLMNOPQRSTUVWXYZ"

LowerCase == "abcdefghijklmnopqrstuvwxyz"

Digits == "0123456789"

\* the position of character c in alphabet, 0 when it is not in it
IndexIn(alphabet, c) ==
    IF \E i \in 1..Len(alphabet) : CharAt(alphabet, i) = c
    THEN CHOOSE i \in 1..Len(alphabet) : CharAt(alphabet, i) = c
    ELSE 0

CharsOf(alphabet) == { CharAt(alphabet, i) : i \in 1..Len(alphabet) }

DigitChars == CharsOf(Digits)

\* the lower-case letter of each upper-case letter, and back
ToLower == [c \in CharsOf(UpperCase) |-> CharAt(LowerCase, IndexIn(UpperCase, c))]

ToUpper == [c \in CharsOf(LowerCase) |-> CharAt(UpperCase, IndexIn(LowerCase, c))]

IsDigit(c) == c \in DigitChars

LowerChar(c) == IF c \in DOMAIN ToLower THEN ToLower[c] ELSE c

UpperChar(c) == IF c \in DOMAIN ToUpper THEN ToUpper[c] ELSE c

RECURSIVE Lower(_)
\* str.lower()
Lower(s) == IF s = "" THEN "" ELSE LowerChar(CharAt(s, 1)) \o Lower(SubSeq(s, 2, Len(s)))

RECURSIVE Upper(_)
\* str.upper()
Upper(s) == IF s = "" THEN "" ELSE UpperChar(CharAt(s, 1)) \o Upper(SubSeq(s, 2, Len(s)))

\* k in s (substring test on characters)
Contains(s, k) ==
    \E i \in 1..(Len(s) - Len(k) + 1) : SubSeq(s, i, i + Len(k) - 1) = k

\* any(k in s for k in keys)
AnyIn(keys, s) == \E j \in 1..Len(keys) : Contains(s, keys[j])

AllDigits(s, a, b) == \A i \in a..b : IsDigit(CharAt(s, i))

(***************************************************************************)
(* extract_cves: CVE_REGEX = CVE-\d{4}-\d{4,7}, case-insensitive.  A match *)
(* at position i takes "cve-", exactly four digits, "-", and then greedily *)
(* four to seven digits.                                                   *)
(***************************************************************************)
CveYearDigits == 4

CveSeqMinDigits == 4

CveSeqMaxDigits == 7

CveSeqStart(i) == i + 4 + CveYearDigits + 1

CveMatchesAt(s, i) ==
    /\ CveSeqStart(i) + CveSeqMinDigits - 1 <= Len(s)
    /\ Lower(SubSeq(s, i, i + 3)) = "cve-"
    /\ AllDigits(s, i + 4, i + 4 + CveYearDigits - 1)
    /\ CharAt(s, i + 4 + CveYearDigits) = "-"
    /\ AllDigits(s, CveSeqStart(i), CveSeqStart(i) + CveSeqMinDigits - 1)

\* the last character of the greedy match that starts at i
CveMatchEnd(s, i) ==
    LET lens == { n \in CveSeqMinDigits..CveSeqMaxDigits :
                    /\ CveSeqStart(i) + n - 1 <= Len(s)
                    /\ AllDigits(s, CveSeqStart(i), CveSeqStart(i) + n - 1) }
        n == CHOOSE m \in lens : \A k \in lens : k <= m
    IN CveSeqStart(i) + n - 1

\* the set {m.upper() for m in CVE_REGEX.findall(text or "")}
extract_cves(text) ==
    LET s == OrEmpty(text)
    IN { Upper(SubSeq(s, i, CveMatchEnd(s, i))) : i \in { j \in 1..Len(s) : CveMatchesAt(s, j) } }

(***************************************************************************)
(* The keyword classifiers, first matching bucket wins.                    *)
(***************************************************************************)
RceKeys == <<"remote code execution", "rce", "execute arbitrary code">>

AuthBypassKeys ==
    <<"auth bypass", "authentication bypass", "bypass authentication", "unauthenticated access">>

PrivEscKeys ==
    <<"privilege escalation", "elevation of privilege", "escalate privileges", "eop">>

DosKeys == <<"denial of service", "dos", "service unavailable", "crash the service">>

InfoDiscKeys ==
    <<"information disclosure", "info disclosure", "leak information", "data exposure">>

classify_vuln_type(full_text) ==
    LET ft == Lower(full_text)
    IN IF AnyIn(RceKeys, ft) THEN "RCE"
       ELSE IF AnyIn(AuthBypassKeys, ft) THEN "auth_bypass"
       ELSE IF AnyIn(PrivEscKeys, ft) THEN "priv_esc"
       ELSE IF AnyIn(DosKeys, ft) THEN "dos"
       ELSE IF AnyIn(InfoDiscKeys, ft) THEN "info_disc"
       ELSE "unknown"

KnownExploitedKeys ==
    <<"actively exploited", "exploited in the wild", "in the wild", "under active exploitation">>

PocKeys == <<"proof of concept", "poc released", "exploit code", "exploit available">>

UnderAttackKeys ==
    <<"under attack", "targeted attacks", "observed exploitation", "being exploited">>

classify_exploitation_status(full_text, is_kev) ==
    LET ft == Lower(full_text)
    IN IF is_kev THEN "known_exploited"
       ELSE IF AnyIn(KnownExploitedKeys, ft) THEN "known_exploited"
       ELSE IF AnyIn(PocKeys, ft) THEN "poc_available"
       ELSE IF AnyIn(UnderAttackKeys, ft) THEN "under_attack"
       ELSE "unknown"

(***************************************************************************)
(* compute_risk_score: the additive model, clamped at ScoreCap.            *)
(***************************************************************************)
ScoreCap == 100

SeverityPoints(severity) ==
    IF severity = "HIGH" THEN 60 ELSE IF severity = "MEDIUM" THEN 40 ELSE 20

VulnTypePoints(vuln_type) ==
    IF vuln_type = "RCE" THEN 20
    ELSE IF vuln_type \in {"auth_bypass", "priv_esc"} THEN 15
    ELSE IF vuln_type = "info_disc" THEN 5
    ELSE IF vuln_type = "dos" THEN 5
    ELSE 0

KevPoints(is_kev) == IF is_kev THEN 20 ELSE 0

\* mutant of StatusPoints: known_exploited adds what under_attack adds
StatusPointsKnownAsAttack(exploitation_status) ==
    IF exploitation_status \in {"known_exploited", "under_attack"} THEN 15
    ELSE IF exploitation_status = "poc_available" THEN 10
    ELSE 0

StatusPoints(exploitation_status) ==
    IF exploitation_status = "known_exploited" THEN 20
    ELSE IF exploitation_status = "under_attack" THEN 15
    ELSE IF exploitation_status = "poc_available" THEN 10
    ELSE 0

CvePoints(has_cves) == IF has_cves THEN 5 ELSE 0

\* mutant of Clamp: the sum is returned as it is
ClampNone(score) == score

Clamp(score) == Min2(score, ScoreCap)

compute_risk_score(severity, vuln_type, exploitation_status, is_kev, has_cves) ==
    Clamp(SeverityPoints(severity) + VulnTypePoints(vuln_type) + KevPoints(is_kev)
          + StatusPoints(exploitation_status) + CvePoints(has_cves))

(***************************************************************************)
(* score_item.  An item is a row of raw_items: [id, source, external_id,   *)
(* title, text] with title and text optional.                              *)
(***************************************************************************)
TitleMax == 300

SummaryTextMax == 200

KevSource == "cisa_kev"

\* (item.get("title") or "")[:300]
ItemTitle(item) == Take(OrEmpty(item.title), TitleMax)

\* item.get("text") or ""
ItemText(item) == OrEmpty(item.text)

\* f"{title}\n{text}"
FullText(item) == ItemTitle(item) \o "\n" \o ItemText(item)

\* the first vendor of the list whose lower-cased name occurs in full_lower
MatchVendor(vendors, full_lower) ==
    LET hits == { i \in 1..Len(vendors) : Contains(full_lower, Lower(vendors[i])) }
    IN IF hits = {} THEN None
       ELSE Some(vendors[CHOOSE i \in hits : \A j \in hits : i <= j])

\* Python truth of matched_vendor: None and "" are both false
VendorTruthy(matched_vendor) == matched_vendor # None /\ matched_vendor[1] # ""

\* any(term.lower() in full_lower for term in terms)
TermHit(terms, full_lower) ==
    \E i \in 1..Len(terms) : Contains(full_lower, Lower(terms[i]))

IsKev(item) == item.source = KevSource

\* the first test: do we care at all
Admits(has_vendor, has_cves, is_kev) == ~(~has_vendor /\ ~has_cves /\ ~is_kev)

\* mutant of BaseSeverity: the branch "elif is_kev" is missing
BaseSeverityNoKevBranch(has_vendor, has_cves, high_hit, med_hit, is_kev) ==
    IF has_vendor /\ (high_hit \/ (has_cves /\ high_hit) \/ is_kev) THEN Some("HIGH")
    ELSE IF has_vendor /\ (has_cves \/ med_hit) THEN Some("MEDIUM")
    ELSE IF has_cves /\ high_hit THEN Some("MEDIUM")
    ELSE None

\* the base severity chain; None is the "too weak a signal" return
BaseSeverity(has_vendor, has_cves, high_hit, med_hit, is_kev) ==
    IF has_vendor /\ (high_hit \/ (has_cves /\ high_hit) \/ is_kev) THEN Some("HIGH")
    ELSE IF has_vendor /\ (has_cves \/ med_hit) THEN Some("MEDIUM")
    ELSE IF is_kev THEN Some("HIGH")
    ELSE IF has_cves /\ high_hit THEN Some("MEDIUM")
    ELSE None

\* title or (text[:200] + "...")
Summary(title, text) ==
    IF title # "" THEN title ELSE Take(text, SummaryTextMax) \o "..."

Rejected == [should_create_event |-> FALSE]

score_item(item, vendors, high_terms, medium_terms) ==
    LET title == ItemTitle(item)
        text == ItemText(item)
        full == FullText(item)
        full_lower == Lower(full)
        matched_vendor == MatchVendor(vendors, full_lower)
        has_vendor == VendorTruthy(matched_vendor)
        cves == extract_cves(Some(full))
        has_cves == cves # {}
        high_hit == TermHit(high_terms, full_lower)
        med_hit == TermHit(medium_terms, full_lower)
        is_kev == IsKev(item)
        severity == BaseSeverity(has_vendor, has_cves, high_hit, med_hit, is_kev)
        vuln_type == classify_vuln_type(full)
        exploitation_status == classify_exploitation_status(full, is_kev)
    IN IF ~Admits(has_vendor, has_cves, is_kev) THEN Rejected
       ELSE IF severity = None THEN Rejected
       ELSE [should_create_event |-> TRUE,
             severity |-> severity[1],
             vendor |-> matched_vendor,
             product |-> None,
             cves |-> cves,
             summary |-> Summary(title, text),
             vuln_type |-> vuln_type,
             exploitation_status |-> exploitation_status,
             risk_score |-> compute_risk_score(severity[1], vuln_type,
                                               exploitation_status, is_kev, has_cves),
             is_kev |-> is_kev]

(***************************************************************************)
(* str(int) and int(str), as update_last_processed_raw_item_id and         *)
(* fetch_unprocessed_raw_items use them on the checkpoint.  int() strips   *)
(* surrounding whitespace, takes an optional sign and then decimal digits, *)
(* single underscores allowed between digits; anything else raises         *)
(* ValueError.                                                             *)
(***************************************************************************)
NumBase == 10

DigitStr(d) == CharAt(Digits, d + 1)

DigitVal(c) == IndexIn(Digits, c) - 1

RECURSIVE NatToStr(_)
NatToStr(n) ==
    IF n < NumBase THEN DigitStr(n)
    ELSE NatToStr(n \div NumBase) \o DigitStr(n % NumBase)

\* str(n)
IntToStr(n) == IF n < 0 THEN "-" \o NatToStr(0 - n) ELSE NatToStr(n)

IsSpace(c) == c \in {" ", "\n", "\t", "\r"}

RECURSIVE StripLeft(_)
StripLeft(s) ==
    IF s # "" /\ IsSpace(CharAt(s, 1)) THEN StripLeft(SubSeq(s, 2, Len(s))) ELSE s

RECURSIVE StripRight(_)
StripRight(s) ==
    IF s # "" /\ IsSpace(CharAt(s, Len(s))) THEN StripRight(SubSeq(s, 1, Len(s) - 1)) ELSE s

Strip(s) == StripRight(StripLeft(s))

HasSign(s) == s # "" /\ CharAt(s, 1) \in {"+", "-"}

Unsigned(s) == IF HasSign(s) THEN SubSeq(s, 2, Len(s)) ELSE s

\* decimal digits, single underscores only between digits
DigitsOk(d) ==
    /\ d # ""
    /\ \A i \in 1..Len(d) :
          \/ IsDigit(CharAt(d, i))
          \/ /\ CharAt(d, i) = "_"
             /\ 1 < i /\ i < Len(d)
             /\ IsDigit(CharAt(d, i - 1)) /\ IsDigit(CharAt(d, i + 1))

RECURSIVE DigitsValue(_, _)
DigitsValue(d, acc) ==
    IF d = "" THEN acc
    ELSE IF CharAt(d, 1) = "_" THEN DigitsValue(SubSeq(d, 2, Len(d)), acc)
    ELSE DigitsValue(SubSeq(d, 2, Len(d)), acc * NumBase + DigitVal(CharAt(d, 1)))

\* int(s) returns a value (does not raise ValueError)
IntParses(s) == DigitsOk(Unsigned(Strip(s)))

\* int(s), where it parses
IntOf(s) ==
    LET t == Strip(s)
        v == DigitsValue(Unsigned(t), 0)
    IN IF HasSign(t) /\ CharAt(t, 1) = "-" THEN 0 - v ELSE v

(***************************************************************************)
(* The store (core/db.py) and the state of each run_detection invocation.  *)
(***************************************************************************)
CheckpointKey == "last_processed_raw_item_id"

\* the processes that may call run_detection on the same store
Procs == {1, 2}

MaxItems == 3

MaxBatch == 2

MaxEvents == 4

MaxConcRuns == 1

BatchSizes == 1..MaxBatch

VARIABLES
    raw_items,      \* table raw_items, in id order
    events,         \* table events, in id order
    event_sources,  \* table event_sources, in id order
    meta,           \* table meta: key -> optional value
    run,            \* per process: the locals of its run_detection call
    snap,           \* per process, history: the store as the call found it
    hist,           \* history of the store across calls
    call            \* a call of a pure function and its result

vars == <<raw_items, events, event_sources, meta, run, snap, hist, call>>

store == <<raw_items, events, event_sources, meta>>

(***************************************************************************)
(* Inputs: the configurations a caller passes and the items the collectors *)
(* hand to insert_raw_item.                                                *)
(***************************************************************************)
DetectionConfig(vendors, high_terms, medium_terms) ==
    [vendors |-> vendors, high_risk_terms |-> high_terms, medium_risk_terms |-> medium_terms]

EmptyConfig == DetectionConfig(<<>>, <<>>, <<>>)

AcmeConfig == DetectionConfig(<<"Acme">>, <<"remote code execution">>, <<"vulnerability">>)

Configs == {EmptyConfig, AcmeConfig}

NewItem(source, external_id, title, text) ==
    [source |-> source, external_id |-> external_id, title |-> title, text |-> text]

ItemPool ==
    { NewItem("rss:feed", "g1", Some("Acme Gateway RCE"), Some("remote code execution in the wild")),
      NewItem("rss:feed", "g2", Some("Weekly news"), Some("nothing to see")),
      NewItem("cisa_kev", "CVE-2024-1234", Some("Initech Widget - CVE-2024-1234"), Some("auth bypass")),
      NewItem("rss:feed", "g4", None, Some("Acme patch notes")),
      NewItem("rss:feed", "g1", Some("Acme Gateway RCE (updated)"), Some("poc released")) }

NoCall == [fn |-> "none"]

NoRun ==
    [pc |-> "idle", outcome |-> "none", config |-> EmptyConfig, batch_size |-> 0,
     last_id_str |-> None, rows |-> <<>>, idx |-> 0, max_id_seen |-> 0,
     events_created |-> 0, scored |-> Rejected, event_id |-> 0]

\* events0, links0, meta0: the tables' sizes and the checkpoint when the call
\* started; nitems: the size of raw_items at its SELECT; linked, own_events:
\* the raw item ids it linked and the event ids it created
NoSnap ==
    [events0 |-> 0, links0 |-> 0, meta0 |-> None, nitems |-> 0,
     read_meta |-> FALSE, wrote_meta |-> FALSE, linked |-> {}, own_events |-> {}]

\* aborted: the raw item ids linked by calls that a storage fault ended;
\* aborted_rows, aborted_read: the batch and the checkpoint read by the last
\* such call; high_water: the highest checkpoint ever written; last_commit:
\* the process that last reached the end of its loop (0: none yet); calls:
\* the number of calls each process has made (counted where calls are bounded);
\* evaluated: the raw item ids score_item has been called on; reevaluated:
\* the ones it has been called on more than once
NoHist ==
    [aborted |-> {}, aborted_rows |-> <<>>, aborted_read |-> None,
     high_water |-> 0, last_commit |-> 0, calls |-> [p \in Procs |-> 0],
     evaluated |-> {}, reevaluated |-> {}]

\* the state after init_db on a fresh database: four empty tables
Init ==
    /\ raw_items = <<>>
    /\ events = <<>>
    /\ event_sources = <<>>
    /\ meta = [k \in {CheckpointKey} |-> None]
    /\ run = [p \in Procs |-> NoRun]
    /\ snap = [p \in Procs |-> NoSnap]
    /\ hist = NoHist
    /\ call = NoCall

(***************************************************************************)
(* db.py helpers                                                           *)
(***************************************************************************)
\* UNIQUE(source, external_id)
KeyTaken(items, item) ==
    \E i \in 1..Len(items) :
        items[i].source = item.source /\ items[i].external_id = item.external_id

\* id INTEGER PRIMARY KEY AUTOINCREMENT; no row is ever deleted
NextId(table) == Len(table) + 1

\* insert_raw_item: the row is added, or IntegrityError leaves the table as it is
insert_raw_item(items, item) ==
    IF KeyTaken(items, item) THEN items
    ELSE Append(items, [id |-> NextId(items), source |-> item.source,
                        external_id |-> item.external_id,
                        title |-> item.title, text |-> item.text])

get_meta(m, key) == m[key]

set_meta(m, key, value) == [m EXCEPT ![key] = Some(value)]

\* mutant of LastId: the stored checkpoint is ignored, the floor is always 0
LastIdIgnored(last_id_str) == 0

\* last_id = int(last_id_str) if last_id_str is not None else 0
LastId(last_id_str) == IF last_id_str = None THEN 0 ELSE IntOf(last_id_str[1])

\* int(last_id_str) raises ValueError
LastIdRaises(last_id_str) == last_id_str # None /\ ~IntParses(last_id_str[1])

\* mutant of AboveFloor: WHERE id >= ?
AboveFloorInclusive(items, last_id) == SelectSeq(items, LAMBDA it : it.id >= last_id)

\* WHERE id > ?
AboveFloor(items, last_id) == SelectSeq(items, LAMBDA it : it.id > last_id)

RECURSIVE SortById(_)
\* ORDER BY id ASC
SortById(rows) ==
    IF rows = <<>> THEN <<>>
    ELSE LET i == CHOOSE j \in 1..Len(rows) : \A k \in 1..Len(rows) : rows[j].id <= rows[k].id
         IN <<rows[i]>> \o SortById(SubSeq(rows, 1, i - 1) \o SubSeq(rows, i + 1, Len(rows)))

\* mutant of Limit: the last n rows are kept (ORDER BY id DESC LIMIT ?)
LimitLast(rows, n) == SubSeq(rows, Max2(1, Len(rows) - n + 1), Len(rows))

\* LIMIT ?
Limit(rows, n) == SubSeq(rows, 1, Min2(n, Len(rows)))

\* SELECT * FROM raw_items WHERE id > ? ORDER BY id ASC LIMIT ?
SelectUnprocessed(items, last_id, batch_size) ==
    Limit(SortById(AboveFloor(items, last_id)), batch_size)

RECURSIVE Join(_, _)
\* sep.join(parts)
Join(parts, sep) ==
    IF parts = <<>> THEN ""
    ELSE IF Len(parts) = 1 THEN parts[1]
    ELSE parts[1] \o sep \o Join(Tail(parts), sep)

\* the orders in which list(set) may enumerate a set
Orderings(S) ==
    { f \in [1..Cardinality(S) -> S] : \A i, j \in 1..Cardinality(S) : f[i] = f[j] => i = j }

\* the row insert_event writes (created_at left out)
EventRow(id, event, cves_list) ==
    [id |-> id, vendor |-> event.vendor, product |-> event.product,
     cves |-> Join(cves_list, ","), severity |-> event.severity,
     summary |-> event.summary, vuln_type |-> event.vuln_type,
     exploitation_status |-> event.exploitation_status,
     risk_score |-> event.risk_score, is_kev |-> IF event.is_kev THEN 1 ELSE 0]

\* the row link_event_to_raw_item writes
LinkRow(id, event_id, raw_item_id) ==
    [id |-> id, event_id |-> event_id, raw_item_id |-> raw_item_id]

(***************************************************************************)
(* run_detection, one action per store call.                               *)
(***************************************************************************)
\* mutant of ConfigEmpty: only a missing configuration counts, empty lists do not
ConfigMissing(config) == FALSE

\* not vendors and not high_terms and not medium_terms
ConfigEmpty(config) ==
    /\ config.vendors = <<>>
    /\ config.high_risk_terms = <<>>
    /\ config.medium_risk_terms = <<>>

\* the rows raw_items can hold
StoredRows ==
    { [id |-> id, source |-> it.source, external_id |-> it.external_id,
       title |-> it.title, text |-> it.text] : id \in 1..MaxItems, it \in ItemPool }

\* score_item on every row under every configuration, computed once
ScoreTable ==
    [item \in StoredRows, config \in Configs |->
       score_item(item, config.vendors, config.high_risk_terms, config.medium_risk_terms)]

\* scored = score_item(item=item, vendors=vendors, high_terms=..., medium_terms=...)
Scored(item, config) == ScoreTable[item, config]

Return(p, outcome) == [run EXCEPT ![p].pc = "idle", ![p].outcome = outcome]

\* the call, down to the configuration test: with no configuration it returns
Start(p, config, batch_size) ==
    /\ run[p].pc = "idle"
    /\ run' = [run EXCEPT ![p] =
                 [NoRun EXCEPT !.config = config, !.batch_size = batch_size,
                               !.pc = IF ConfigEmpty(config) THEN "idle" ELSE "get_meta",
                               !.outcome = IF ConfigEmpty(config) THEN "no_config"
                                           ELSE "running"]]
    /\ snap' = [snap EXCEPT ![p] =
                 [NoSnap EXCEPT !.events0 = Len(events), !.links0 = Len(event_sources),
                                !.meta0 = get_meta(meta, CheckpointKey)]]
    /\ UNCHANGED <<store, call>>

\* fetch_unprocessed_raw_items, first half: get_meta in its own connection
GetMeta(p) ==
    /\ run[p].pc = "get_meta"
    /\ run' = [run EXCEPT ![p].last_id_str = get_meta(meta, CheckpointKey),
                          ![p].pc = "select"]
    /\ snap' = [snap EXCEPT ![p].read_meta = TRUE]
    /\ UNCHANGED <<store, hist, call>>

\* fetch_unprocessed_raw_items, second half: int() raises ValueError
SelectRaises(p) ==
    /\ run[p].pc = "select"
    /\ LastIdRaises(run[p].last_id_str)
    /\ run' = Return(p, "ValueError")
    /\ UNCHANGED <<store, snap, hist, call>>

\* fetch_unprocessed_raw_items, second half: the SELECT; no rows ends the call
Select(p) ==
    /\ run[p].pc = "select"
    /\ ~LastIdRaises(run[p].last_id_str)
    /\ LET rows == SelectUnprocessed(raw_items, LastId(run[p].last_id_str),
                                     run[p].batch_size)
       IN run' = IF rows = <<>> THEN Return(p, "no_items")
                 ELSE [run EXCEPT ![p].rows = rows, ![p].idx = 1, ![p].pc = "loop"]
    /\ snap' = [snap EXCEPT ![p].nitems = Len(raw_items)]
    /\ UNCHANGED <<store, hist, call>>

\* mutant of NextMaxIdSeen: the first id of the batch is kept
FirstIdSeen(max_id_seen, id) == IF max_id_seen = 0 THEN id ELSE max_id_seen

\* max_id_seen = max(max_id_seen, item["id"])
NextMaxIdSeen(max_id_seen, id) == Max2(max_id_seen, id)

\* the history of a call of score_item on raw item id
Evaluated(id) ==
    [hist EXCEPT !.evaluated = @ \cup {id},
                 !.reevaluated = IF id \in hist.evaluated THEN @ \cup {id} ELSE @]

\* mutant of EvalItem: max_id_seen is updated after the continue, so only
\* for accepted items
EvalItemMaxAfterContinue(p) ==
    /\ run[p].pc = "loop"
    /\ run[p].idx <= Len(run[p].rows)
    /\ LET item == run[p].rows[run[p].idx]
           scored == Scored(item, run[p].config)
       IN run' = [run EXCEPT ![p].max_id_seen = IF scored.should_create_event
                                                THEN Max2(run[p].max_id_seen, item.id)
                                                ELSE run[p].max_id_seen,
                             ![p].scored = scored,
                             ![p].idx = IF scored.should_create_event
                                        THEN run[p].idx ELSE run[p].idx + 1,
                             ![p].pc = IF scored.should_create_event
                                       THEN "insert_event" ELSE "loop"]
    /\ hist' = Evaluated(run[p].rows[run[p].idx].id)
    /\ UNCHANGED <<store, snap, call>>

\* mutant of EvalItem: an item that has a link already is skipped
EvalItemSkipLinked(p) ==
    /\ run[p].pc = "loop"
    /\ run[p].idx <= Len(run[p].rows)
    /\ LET item == run[p].rows[run[p].idx]
           scored == IF \E i \in 1..Len(event_sources) :
                            event_sources[i].raw_item_id = item.id
                     THEN Rejected ELSE Scored(item, run[p].config)
       IN run' = [run EXCEPT ![p].max_id_seen = NextMaxIdSeen(run[p].max_id_seen, item.id),
                             ![p].scored = scored,
                             ![p].idx = IF scored.should_create_event
                                        THEN run[p].idx ELSE run[p].idx + 1,
                             ![p].pc = IF scored.should_create_event
                                       THEN "insert_event" ELSE "loop"]
    /\ hist' = Evaluated(run[p].rows[run[p].idx].id)
    /\ UNCHANGED <<store, snap, call>>

\* mutant of Commit: the checkpoint is written only when it rises
CommitIfHigher(p) ==
    /\ run[p].pc = "loop"
    /\ run[p].idx > Len(run[p].rows)
    /\ IF run[p].max_id_seen > LastId(get_meta(meta, CheckpointKey))
       THEN /\ meta' = set_meta(meta, CheckpointKey, IntToStr(run[p].max_id_seen))
            /\ snap' = [snap EXCEPT ![p].wrote_meta = TRUE]
            /\ hist' = [hist EXCEPT !.high_water = Max2(@, run[p].max_id_seen),
                                     !.last_commit = p]
       ELSE /\ hist' = [hist EXCEPT !.last_commit = p]
            /\ UNCHANGED <<meta, snap>>
    /\ run' = [run EXCEPT ![p].pc = "idle", ![p].outcome = "done"]
    /\ UNCHANGED <<raw_items, events, event_sources, call>>

\* the loop body down to insert_event: max_id_seen, score_item, continue
EvalItem(p) ==
    /\ run[p].pc = "loop"
    /\ run[p].idx <= Len(run[p].rows)
    /\ LET item == run[p].rows[run[p].idx]
           scored == Scored(item, run[p].config)
       IN run' = [run EXCEPT ![p].max_id_seen = NextMaxIdSeen(run[p].max_id_seen, item.id),
                             ![p].scored = scored,
                             ![p].idx = IF scored.should_create_event
                                        THEN run[p].idx ELSE run[p].idx + 1,
                             ![p].pc = IF scored.should_create_event
                                       THEN "insert_event" ELSE "loop"]
    /\ hist' = Evaluated(run[p].rows[run[p].idx].id)
    /\ UNCHANGED <<store, snap, call>>

\* insert_event commits the event row and returns its id
InsertEvent(p) ==
    /\ run[p].pc = "insert_event"
    /\ Len(events) < MaxEvents
    /\ \E cves_list \in Orderings(run[p].scored.cves) :
          events' = Append(events, EventRow(NextId(events), run[p].scored, cves_list))
    /\ run' = [run EXCEPT ![p].event_id = NextId(events), ![p].pc = "link"]
    /\ snap' = [snap EXCEPT ![p].own_events = @ \cup {NextId(events)}]
    /\ UNCHANGED <<raw_items, event_sources, meta, hist, call>>

\* link_event_to_raw_item commits the link row; events_created += 1
LinkEvent(p) ==
    /\ run[p].pc = "link"
    /\ LET item == run[p].rows[run[p].idx]
       IN /\ event_sources' = Append(event_sources,
                                     LinkRow(NextId(event_sources), run[p].event_id, item.id))
          /\ snap' = [snap EXCEPT ![p].linked = @ \cup {item.id}]
    /\ run' = [run EXCEPT ![p].events_created = @ + 1, ![p].idx = @ + 1,
                          ![p].pc = "loop"]
    /\ UNCHANGED <<raw_items, events, meta, hist, call>>

\* mutant of Commit: the checkpoint is written only by a run that created
\* an event (if events_created: ...)
CommitIfEvents(p) ==
    /\ run[p].pc = "loop"
    /\ run[p].idx > Len(run[p].rows)
    /\ IF run[p].events_created # 0
       THEN /\ meta' = set_meta(meta, CheckpointKey, IntToStr(run[p].max_id_seen))
            /\ snap' = [snap EXCEPT ![p].wrote_meta = TRUE]
            /\ hist' = [hist EXCEPT !.high_water = Max2(@, run[p].max_id_seen),
                                     !.last_commit = p]
       ELSE /\ hist' = [hist EXCEPT !.last_commit = p]
            /\ UNCHANGED <<meta, snap>>
    /\ run' = Return(p, "done")
    /\ UNCHANGED <<raw_items, events, event_sources, call>>

\* after the loop: if max_id_seen: update_last_processed_raw_item_id(max_id_seen)
Commit(p) ==
    /\ run[p].pc = "loop"
    /\ run[p].idx > Len(run[p].rows)
    /\ IF run[p].max_id_seen # 0
       THEN /\ meta' = set_meta(meta, CheckpointKey, IntToStr(run[p].max_id_seen))
            /\ snap' = [snap EXCEPT ![p].wrote_meta = TRUE]
            /\ hist' = [hist EXCEPT !.high_water = Max2(@, run[p].max_id_seen),
                                     !.last_commit = p]
       ELSE /\ hist' = [hist EXCEPT !.last_commit = p]
            /\ UNCHANGED <<meta, snap>>
    /\ run' = Return(p, "done")
    /\ UNCHANGED <<raw_items, events, event_sources, call>>

\* the history of a call that a storage fault ends
Aborted(p) ==
    [hist EXCEPT !.aborted = @ \cup snap[p].linked,
                 !.aborted_rows = run[p].rows,
                 !.aborted_read = run[p].last_id_str]

\* mutant of FaultInsertEvent: the batch is one transaction, the fault rolls
\* back the events and links the call has written
FaultInsertEventRollback(p) ==
    /\ run[p].pc = "insert_event"
    /\ run' = Return(p, "StorageFault")
    /\ events' = SubSeq(events, 1, snap[p].events0)
    /\ event_sources' = SubSeq(event_sources, 1, snap[p].links0)
    /\ hist' = Aborted(p)
    /\ UNCHANGED <<raw_items, meta, snap, call>>

\* insert_event raises (sqlite3.Error): the exception leaves run_detection
FaultInsertEvent(p) ==
    /\ run[p].pc = "insert_event"
    /\ run' = Return(p, "StorageFault")
    /\ hist' = Aborted(p)
    /\ UNCHANGED <<store, snap, call>>

\* link_event_to_raw_item raises: the event row is already committed
FaultLink(p) ==
    /\ run[p].pc = "link"
    /\ run' = Return(p, "StorageFault")
    /\ hist' = Aborted(p)
    /\ UNCHANGED <<store, snap, call>>

\* set_meta called on the checkpoint key from outside run_detection
SetMeta(value) ==
    /\ get_meta(meta, CheckpointKey) # Some(value)
    /\ meta' = set_meta(meta, CheckpointKey, value)
    /\ UNCHANGED <<raw_items, events, event_sources, run, snap, hist, call>>

\* a collector hands one item to insert_raw_item
InsertRawItem(item) ==
    /\ Len(raw_items) < MaxItems
    /\ raw_items' = insert_raw_item(raw_items, item)
    /\ UNCHANGED <<events, event_sources, meta, run, snap, hist, call>>

\* the steps of a call after its start
Steps(p) ==
    \/ GetMeta(p)
    \/ Select(p)
    \/ EvalItem(p)
    \/ InsertEvent(p)
    \/ LinkEvent(p)
    \/ Commit(p)

Run(p) ==
    \/ \E config \in Configs, batch_size \in BatchSizes :
          Start(p, config, batch_size) /\ UNCHANGED hist
    \/ Steps(p)

\* serialized invocations: one process calls run_detection again and again,
\* collectors insert raw items at any time
Next ==
    \/ \E item \in ItemPool : InsertRawItem(item)
    \/ Run(1)

Spec == Init /\ [][Next]_vars


\* interleaved invocations: nothing keeps two processes from running
\* run_detection on the same store at the same time
\* fewer kinds of items, where two calls or faults multiply the states
SmallPool == { it \in ItemPool : it.external_id \in {"g1", "g2"} }

\* a call of process p, counted: each process makes at most MaxConcRuns calls
StartCounted(p, config, batch_size) ==
    /\ hist.calls[p] < MaxConcRuns
    /\ Start(p, config, batch_size)
    /\ hist' = [hist EXCEPT !.calls[p] = @ + 1]

NextConc ==
    \/ \E item \in SmallPool : InsertRawItem(item)
    \/ \E p \in Procs, batch_size \in BatchSizes : StartCounted(p, AcmeConfig, batch_size)
    \/ \E p \in Procs : Steps(p)

SpecConc == Init /\ [][NextConc]_vars

\* two kinds of accepted items and a rejected one
FaultPool ==
    { it \in ItemPool :
        it.external_id \in {"g1", "g2", "CVE-2024-1234"} /\ it.text # Some("poc released") }

\* serialized invocations in which insert_event and link_event_to_raw_item
\* may fail
NextFault ==
    \/ \E item \in FaultPool : InsertRawItem(item)
    \/ Run(1)
    \/ FaultInsertEvent(1)
    \/ FaultLink(1)

SpecFault == Init /\ [][NextFault]_vars

\* a call with a detection configuration, or a step of the call
RunConfigured(p) ==
    \/ \E batch_size \in BatchSizes : Start(p, AcmeConfig, batch_size) /\ UNCHANGED hist
    \/ Steps(p)

NextLive ==
    \/ \E item \in ItemPool : InsertRawItem(item)
    \/ RunConfigured(1)

\* run_detection is invoked again and again (the scheduler's loop of
\* run_all / run_detection) and each invocation runs to its return
SpecLive == Init /\ [][NextLive]_vars /\ WF_vars(RunConfigured(1))

\* values of the checkpoint row other than the ones run_detection writes
MetaPool == {"abc", "", "1.0", " 1\n"}

\* serialized invocations on a store whose checkpoint row is also written
\* through set_meta by its owner
NextMeta ==
    \/ \E item \in SmallPool : InsertRawItem(item)
    \/ \E value \in MetaPool : SetMeta(value)
    \/ Run(1)
    \/ SelectRaises(1)

SpecMeta == Init /\ [][NextMeta]_vars

(***************************************************************************)
(* Calls of the pure functions: the inputs are drawn at the start, the     *)
(* call computes the result.                                               *)
(***************************************************************************)
Severities == {"HIGH", "MEDIUM", "LOW"}

VulnTypes == {"RCE", "auth_bypass", "priv_esc", "dos", "info_disc", "unknown"}

Statuses == {"known_exploited", "under_attack", "poc_available", "unknown"}

RiskCalls ==
    { [fn |-> "compute_risk_score", severity |-> sv, vuln_type |-> vt,
       exploitation_status |-> es, is_kev |-> k, has_cves |-> c, done |-> FALSE, ret |-> 0] :
      sv \in Severities, vt \in VulnTypes, es \in Statuses, k \in BOOLEAN, c \in BOOLEAN }

SignalNames == {"vendor", "cves", "high", "med", "kev"}

\* an item whose text holds exactly the signals switched on in flags, for AcmeConfig
BuildItem(flags) ==
    [id |-> 1,
     source |-> IF flags["kev"] THEN KevSource ELSE "rss:feed",
     external_id |-> "g",
     title |-> Some((IF flags["vendor"] THEN "ACME" ELSE "Other") \o " Gateway"
                    \o (IF flags["cves"] THEN " cve-2024-1234" ELSE "")),
     text |-> Some((IF flags["high"] THEN "Remote Code Execution" ELSE "flaw")
                   \o (IF flags["med"] THEN ", a vulnerability" ELSE ""))]

ScoreCalls ==
    { [fn |-> "score_item", flags |-> f, item |-> BuildItem(f), config |-> AcmeConfig,
       done |-> FALSE, ret |-> Rejected] : f \in [SignalNames -> BOOLEAN] }

\* a configuration with a vendor and a high-risk term only
HighOnlyConfig == DetectionConfig(<<"Acme">>, <<"remote code execution">>, <<>>)

\* items from a feed that name the vendor, hold the high-risk term (an RCE
\* key as well) and the phrase "in the wild", and no CVE identifier
ExampleItems ==
    { [id |-> 1, source |-> "rss:feed", external_id |-> "g", title |-> Some(t), text |-> Some(x)] :
      t \in {"Acme Gateway RCE", "ACME gateway"},
      x \in {"remote code execution observed in the wild",
             "Remote Code Execution, exploited in the wild"} }

ExampleFlags ==
    [n \in SignalNames |-> n \in {"vendor", "high"}]

ExampleCalls ==
    { [fn |-> "score_item", flags |-> ExampleFlags, item |-> it, config |-> cfg,
       done |-> FALSE, ret |-> Rejected] :
      it \in ExampleItems, cfg \in {HighOnlyConfig, AcmeConfig} }

\* one key of a bucket, or none of them
PhraseChoices(keys) == {""} \cup { keys[i] : i \in 1..Len(keys) }

\* a full_text that holds the chosen phrases and no other key
StatusText(known, attack, poc) == "Advisory: " \o poc \o "; " \o attack \o "; " \o known

StatusCalls ==
    { [fn |-> "classify_exploitation_status", known |-> k, attack |-> a, poc |-> c,
       full_text |-> IF shout THEN Upper(StatusText(k, a, c)) ELSE StatusText(k, a, c),
       is_kev |-> kev, done |-> FALSE, ret |-> "none"] :
      k \in PhraseChoices(KnownExploitedKeys), a \in PhraseChoices(UnderAttackKeys),
      c \in PhraseChoices(PocKeys), shout \in BOOLEAN, kev \in BOOLEAN }

InitPure ==
    /\ raw_items = <<>>
    /\ events = <<>>
    /\ event_sources = <<>>
    /\ meta = [k \in {CheckpointKey} |-> None]
    /\ run = [p \in Procs |-> NoRun]
    /\ snap = [p \in Procs |-> NoSnap]
    /\ hist = NoHist
    /\ call \in RiskCalls \cup ScoreCalls \cup ExampleCalls \cup StatusCalls

CallComputeRiskScore ==
    /\ call.fn = "compute_risk_score" /\ ~call.done
    /\ call' = [call EXCEPT !.done = TRUE,
                            !.ret = compute_risk_score(call.severity, call.vuln_type,
                                                       call.exploitation_status,
                                                       call.is_kev, call.has_cves)]
    /\ UNCHANGED <<store, run, snap, hist>>

CallScoreItem ==
    /\ call.fn = "score_item" /\ ~call.done
    /\ call' = [call EXCEPT !.done = TRUE,
                            !.ret = score_item(call.item, call.config.vendors,
                                               call.config.high_risk_terms,
                                               call.config.medium_risk_terms)]
    /\ UNCHANGED <<store, run, snap, hist>>

CallClassifyExploitationStatus ==
    /\ call.fn = "classify_exploitation_status" /\ ~call.done
    /\ call' = [call EXCEPT !.done = TRUE,
                            !.ret = classify_exploitation_status(call.full_text, call.is_kev)]
    /\ UNCHANGED <<store, run, snap, hist>>

NextPure == CallComputeRiskScore \/ CallScoreItem \/ CallClassifyExploitationStatus

SpecPure == InitPure /\ [][NextPure]_vars

(***************************************************************************)
(* Properties of serialized runs (Spec).                                   *)
(***************************************************************************)
\* the configuration supplies no vendor and no term
ConfigEmptyClaim(config) ==
    Len(config.vendors) + Len(config.high_risk_terms) + Len(config.medium_risk_terms) = 0

\* a stored checkpoint value as a number: 0 while the key is absent
AsNumber(value) == IF value = None THEN 0 ELSE IntOf(value[1])

\* the checkpoint as a number
Watermark == AsNumber(meta[CheckpointKey])

Accepted(item, config) == Scored(item, config).should_create_event

LinksTo(id) == { i \in 1..Len(event_sources) : event_sources[i].raw_item_id = id }

\* the links and events written since process p's call started
NewLinks(p) == { i \in 1..Len(event_sources) : i > snap[p].links0 }

NewEvents(p) == { i \in 1..Len(events) : i > snap[p].events0 }

\* the raw items that were in the store when p's SELECT ran
ItemsAtSelect(p) == { raw_items[i] : i \in 1..snap[p].nitems }

\* the batch p should fetch: the up to batch_size items of smallest id above w
BatchAbove(p, w) ==
    { it \in ItemsAtSelect(p) :
        /\ it.id > w
        /\ Cardinality({ o \in ItemsAtSelect(p) : o.id > w /\ o.id < it.id })
             < run[p].batch_size }

MaxIdOf(items) == CHOOSE m \in { it.id : it \in items } : \A it \in items : it.id <= m

\* the rows p fetched
RowsOf(p) == { run[p].rows[j] : j \in 1..Len(run[p].rows) }

\* p's call went through its SELECT and has returned
Finished(p) == run[p].pc = "idle" /\ run[p].outcome \in {"done", "no_items"}

\* a step that changes the checkpoint row is the last step of a call whose
\* loop is over, with the links and events of its accepted rows written, and
\* writes a number no lower than the one stored and the one the call read
C1_CheckpointStep ==
    meta' # meta =>
      \E p \in Procs :
        /\ run[p].pc = "loop" /\ run[p].idx > Len(run[p].rows)
        /\ run'[p].pc = "idle"
        /\ \A j \in 1..Len(run[p].rows) :
              Accepted(run[p].rows[j], run[p].config) =>
                \E i \in NewLinks(p) :
                   /\ event_sources[i].raw_item_id = run[p].rows[j].id
                   /\ event_sources[i].event_id \in NewEvents(p)
        /\ IntParses(meta'[CheckpointKey][1])
        /\ AsNumber(meta'[CheckpointKey]) >= AsNumber(run[p].last_id_str)
        /\ AsNumber(meta'[CheckpointKey]) >= Watermark

\* C1: under serialized runs with raw items inserted at any time, the stored
\* checkpoint never decreases: it only changes at the end of a run's loop, when
\* every accepted item of the fetched batch has its event and link in the
\* store, and the value written is no lower than the stored one or the one the
\* run read at its start.
C1_CheckpointMonotone == [][C1_CheckpointStep]_vars

\* a second run has advanced a checkpoint that an earlier run had set
C1_Witness ==
    /\ run[1].outcome = "done" /\ snap[1].wrote_meta
    /\ snap[1].meta0 # None
    /\ Watermark > AsNumber(snap[1].meta0)
    /\ snap[1].linked # {}

\* C2: a run that starts at watermark W with a non-empty batch B ends with the
\* watermark at max id of B, one event per accepted item of B, and exactly one
\* link (event of this run, item) per accepted item and none for the others.
C2_BatchOutcome ==
    \A p \in {1} :
      LET w == AsNumber(snap[p].meta0)
          B == BatchAbove(p, w)
          acc == { it \in B : Accepted(it, run[p].config) }
      IN (Finished(p) /\ B # {}) =>
           /\ run[p].outcome = "done"
           /\ Watermark = MaxIdOf(B)
           /\ Cardinality(NewEvents(p)) = Cardinality(acc)
           /\ run[p].events_created = Cardinality(acc)
           /\ Cardinality(NewLinks(p)) = Cardinality(acc)
           /\ \A it \in acc :
                 \E i \in NewLinks(p) :
                    /\ event_sources[i].raw_item_id = it.id
                    /\ event_sources[i].event_id \in NewEvents(p)
           /\ \A i \in NewLinks(p) : event_sources[i].raw_item_id \in { it.id : it \in acc }
           /\ \A i, j \in NewLinks(p) :
                 event_sources[i].event_id = event_sources[j].event_id => i = j

\* the shape of W=5, items 6,7,8, only 7 admitted: a run from a set watermark
\* over two items whose last one is rejected and whose first one is accepted
C2_Witness ==
    LET B == BatchAbove(1, AsNumber(snap[1].meta0))
    IN /\ Finished(1) /\ snap[1].meta0 # None
       /\ Cardinality(B) = 2
       /\ \E a, r \in B :
             /\ a.id < r.id
             /\ Accepted(a, run[1].config) /\ ~Accepted(r, run[1].config)
             /\ Watermark = r.id
       /\ Cardinality(NewEvents(1)) = 1

\* C3: a run that finds no raw item above the stored watermark creates no
\* event, writes no link and does not write the checkpoint.
C3_EmptyRunNoEffect ==
    \A p \in {1} :
      (/\ Finished(p)
       /\ \A it \in ItemsAtSelect(p) : it.id <= AsNumber(snap[p].meta0))
      => /\ run[p].outcome = "no_items"
         /\ NewEvents(p) = {} /\ NewLinks(p) = {}
         /\ ~snap[p].wrote_meta
         /\ get_meta(meta, CheckpointKey) = snap[p].meta0

\* a re-run after a completed run that left events, the store unchanged
C3_Witness ==
    /\ Finished(1) /\ run[1].outcome = "no_items"
    /\ snap[1].meta0 # None /\ snap[1].nitems > 0 /\ Len(events) > 0
    /\ \A it \in ItemsAtSelect(1) : it.id <= AsNumber(snap[1].meta0)

\* C4: every raw item id is in at most one link, and no item at or after the
\* position of a running loop is linked already.
C4_AtMostOneLink ==
    /\ \A i, j \in 1..Len(event_sources) :
          event_sources[i].raw_item_id = event_sources[j].raw_item_id => i = j
    /\ \A p \in {1} :
          run[p].pc \in {"loop", "insert_event", "link"} =>
            \A j \in run[p].idx..Len(run[p].rows) : LinksTo(run[p].rows[j].id) = {}
    /\ \A p \in {1} :
          run[p].pc \in {"loop", "insert_event", "link"} =>
            \A j \in 1..Len(run[p].rows) : run[p].rows[j].id > AsNumber(snap[p].meta0)

\* links written by two different runs, the second started above the first's item
C4_Witness ==
    /\ run[1].outcome = "done"
    /\ snap[1].links0 >= 1 /\ Len(event_sources) > snap[1].links0
    /\ \A i \in 1..snap[1].links0 :
          event_sources[i].raw_item_id <= AsNumber(snap[1].meta0)

\* C5: a call with no vendors and no terms returns at once: it does not read
\* or write the checkpoint, fetches nothing, creates no event and no link.
C5_EmptyConfigNoOp ==
    \A p \in {1} :
      (ConfigEmptyClaim(run[p].config) /\ run[p].outcome # "none") =>
         /\ run[p].pc = "idle" /\ run[p].outcome = "no_config"
         /\ ~snap[p].read_meta /\ ~snap[p].wrote_meta
         /\ run[p].rows = <<>>
         /\ NewEvents(p) = {} /\ NewLinks(p) = {}
         /\ get_meta(meta, CheckpointKey) = snap[p].meta0

\* the call returned with a known-exploited item waiting above the watermark
C5_Witness ==
    /\ run[1].outcome = "no_config"
    /\ \E i \in 1..Len(raw_items) :
          raw_items[i].source = KevSource /\ raw_items[i].id > Watermark

\* score_item has been called on raw item id exactly once
EvaluatedOnce(id) == id \in hist.evaluated /\ id \notin hist.reevaluated

\* the ids of the raw items in the store
StoredIds == { raw_items[i].id : i \in 1..Len(raw_items) }

\* C13: under serialized runs with raw items inserted at any time, every raw
\* item at or below the stored watermark has been evaluated by score_item
\* exactly once; a fetched batch is the lowest ids above the watermark the run
\* read, with no stored id left out between them, and a run that is done has
\* set the watermark to the max id of its batch.
C13_NoItemSkipped ==
    /\ \A id \in StoredIds : id <= Watermark => EvaluatedOnce(id)
    /\ Watermark = 0 \/ Watermark \in StoredIds
    /\ \A p \in {1} :
          /\ run[p].rows # <<>> =>
                /\ RowsOf(p) = BatchAbove(p, AsNumber(run[p].last_id_str))
                /\ \A j \in 1..Len(run[p].rows), id \in StoredIds :
                      (AsNumber(run[p].last_id_str) < id /\ id < run[p].rows[j].id)
                      => \E k \in 1..Len(run[p].rows) : run[p].rows[k].id = id
          /\ (run[p].pc = "idle" /\ run[p].outcome = "done") =>
                Watermark = MaxIdOf(RowsOf(p))

\* three runs of batch size 1 have each moved the watermark by one item, a
\* rejected item among them, every item evaluated once
C13_Witness ==
    /\ Len(raw_items) = 3 /\ Watermark = 3
    /\ run[1].outcome = "done" /\ run[1].batch_size = 1
    /\ AsNumber(snap[1].meta0) = 2
    /\ \A id \in StoredIds : EvaluatedOnce(id)
    /\ \E id \in StoredIds : LinksTo(id) = {}
    /\ \E id \in StoredIds : LinksTo(id) # {}
(***************************************************************************)
(* Progress of serialized runs with a configuration (SpecLive).            *)
(***************************************************************************)
\* the largest raw item id, 0 for an empty table
LargestId == IF raw_items = <<>> THEN 0 ELSE MaxIdOf({ raw_items[i] : i \in 1..Len(raw_items) })

\* the watermark is the largest raw item id and every raw item is evaluated
CaughtUp ==
    /\ Watermark = LargestId
    /\ \A id \in StoredIds : id \in hist.evaluated

\* a call that fetched a batch and returned has raised the watermark
FetchRaises ==
    \A p \in {1} :
      (run[p].pc = "idle" /\ run[p].rows # <<>>) =>
         /\ run[p].outcome = "done" /\ snap[p].wrote_meta
         /\ Watermark > AsNumber(snap[p].meta0)
         /\ Watermark > AsNumber(run[p].last_id_str)

\* once caught up, a step that inserts no raw item changes nothing in the
\* store and evaluates no item
StableStep ==
    (CaughtUp /\ raw_items' = raw_items) =>
       /\ events' = events /\ event_sources' = event_sources /\ meta' = meta
       /\ hist'.evaluated = hist.evaluated /\ hist'.reevaluated = hist.reevaluated
       /\ run'[1].pc \notin {"loop", "insert_event", "link"}

\* C14: with a configuration, batch_size >= 1 and no storage fault, a call
\* that fetches at least one item strictly raises the watermark; if no raw
\* item is inserted any more, repeated calls reach a state where the
\* watermark is the largest raw item id and every raw item has been
\* evaluated, and from there calls change nothing.  (Insertions are not fair:
\* they may stop at any number of raw items, and they stop in every behaviour.)
C14_Progress ==
    /\ []FetchRaises
    /\ [][StableStep]_vars
    /\ <>[]CaughtUp

\* caught up over several items, and a further call has found nothing to do
C14_Witness ==
    /\ Len(raw_items) >= 2 /\ CaughtUp
    /\ run[1].pc = "idle" /\ run[1].outcome = "no_items" /\ run[1].batch_size = 1
    /\ get_meta(meta, CheckpointKey) = snap[1].meta0
    /\ Len(events) = snap[1].events0 /\ Len(events) >= 1

(***************************************************************************)
(* Properties of the pure functions (SpecPure).                            *)
(***************************************************************************)
\* the table of contributions
TableSum(c) ==
    (IF c.severity = "HIGH" THEN 60 ELSE IF c.severity = "MEDIUM" THEN 40 ELSE 20)
    + (IF c.vuln_type = "RCE" THEN 20 ELSE 0)
    + (IF c.vuln_type \in {"auth_bypass", "priv_esc"} THEN 15 ELSE 0)
    + (IF c.vuln_type \in {"info_disc", "dos"} THEN 5 ELSE 0)
    + (IF c.is_kev THEN 20 ELSE 0)
    + (IF c.exploitation_status = "known_exploited" THEN 20 ELSE 0)
    + (IF c.exploitation_status = "under_attack" THEN 15 ELSE 0)
    + (IF c.exploitation_status = "poc_available" THEN 10 ELSE 0)
    + (IF c.has_cves THEN 5 ELSE 0)

RiskOf(c) ==
    compute_risk_score(c.severity, c.vuln_type, c.exploitation_status, c.is_kev, c.has_cves)

\* C9: compute_risk_score returns min(sum of the table, 100), within 0..100,
\* and turning on is_kev or has_cves or raising the severity never lowers it;
\* the risk_score of an accepted item (the one persisted) is within 0..100.
C9_RiskScore ==
    /\ (call.fn = "compute_risk_score" /\ call.done) =>
         /\ call.ret = (IF TableSum(call) < 100 THEN TableSum(call) ELSE 100)
         /\ call.ret \in 0..100
         /\ RiskOf([call EXCEPT !.is_kev = TRUE]) >= call.ret
         /\ RiskOf([call EXCEPT !.has_cves = TRUE]) >= call.ret
         /\ call.severity = "LOW" => RiskOf([call EXCEPT !.severity = "MEDIUM"]) >= call.ret
         /\ call.severity # "HIGH" => RiskOf([call EXCEPT !.severity = "HIGH"]) >= call.ret
    /\ (call.fn = "score_item" /\ call.done /\ call.ret.should_create_event) =>
         call.ret.risk_score \in 0..100

\* a call whose sum exceeds 100 and is clamped
C9_Witness ==
    /\ call.fn = "compute_risk_score" /\ call.done
    /\ TableSum(call) > 100 /\ call.ret = 100

\* the admission and severity policy over the five signals
PolicyDecision(vendor, cves, high, med, kev) ==
    IF ~vendor /\ ~cves /\ ~kev THEN "REJECT"
    ELSE IF (vendor /\ (high \/ kev)) \/ (kev /\ ~vendor) THEN "HIGH"
    ELSE IF (vendor /\ (cves \/ med)) \/ (cves /\ high /\ ~vendor) THEN "MEDIUM"
    ELSE "REJECT"

\* C10: for every combination of the five signals score_item rejects or
\* accepts with the severity of the policy; an accepted item is HIGH or MEDIUM.
C10_AdmissionPolicy ==
    (call.fn = "score_item" /\ call.done) =>
      LET f == call.flags
          d == PolicyDecision(f["vendor"], f["cves"], f["high"], f["med"], f["kev"])
      IN /\ call.ret.should_create_event = (d # "REJECT")
         /\ call.ret.should_create_event =>
              /\ call.ret.severity = d
              /\ call.ret.severity \in {"HIGH", "MEDIUM"}
              /\ call.ret.is_kev = f["kev"]
              /\ (call.ret.cves # {}) = f["cves"]
              /\ (call.ret.vendor # None) = f["vendor"]

\* identifiers and a high-risk term with no vendor, not known-exploited: MEDIUM
C10_Witness ==
    /\ call.fn = "score_item" /\ call.done
    /\ ~call.flags["vendor"] /\ call.flags["cves"] /\ call.flags["high"] /\ ~call.flags["kev"]
    /\ call.ret.should_create_event /\ call.ret.severity = "MEDIUM"

\* the status the priority order known exploited, under attack, proof of
\* concept gives a call, from the phrases its text was built of
StatusByPriority(c) ==
    IF c.is_kev THEN "known_exploited"
    ELSE IF c.known # "" THEN "known_exploited"
    ELSE IF c.attack # "" THEN "under_attack"
    ELSE IF c.poc # "" THEN "poc_available"
    ELSE "unknown"

\* C11: classify_exploitation_status returns known_exploited when is_kev is
\* true; otherwise the first bucket with a phrase in the text decides, in the
\* order known exploited, under attack, proof of concept, unknown: a text with
\* an under-attack phrase and a proof-of-concept phrase is under_attack.
C11_StatusPriority ==
    (call.fn = "classify_exploitation_status" /\ call.done) =>
      call.ret = StatusByPriority(call)

\* the example of the specification: title "Acme Gateway RCE", text "remote
\* code execution observed in the wild", vendors ["Acme"], high terms
\* ["remote code execution"]
IsExample(c) ==
    /\ c.fn = "score_item"
    /\ c.item.title = Some("Acme Gateway RCE")
    /\ c.item.text = Some("remote code execution observed in the wild")
    /\ c.config.vendors = <<"Acme">>
    /\ c.config.high_risk_terms = <<"remote code execution">>

\* the call is one of the kind the example stands for
IsExampleKind(c) == c.fn = "score_item" /\ c.item \in ExampleItems

\* the result of such a call, but for the risk score
ExampleOutcome(ret) ==
    /\ ret.should_create_event
    /\ ret.severity = "HIGH"
    /\ ret.vuln_type = "RCE"
    /\ ret.exploitation_status = "known_exploited"
    /\ ret.cves = {}
    /\ ~ret.is_kev

\* C12 as stated: such an item yields severity HIGH, vulnerability type RCE,
\* exploitation status known_exploited and risk_score 95.
C12_ExampleScore95 ==
    (IsExampleKind(call) /\ call.done) =>
      ExampleOutcome(call.ret) /\ call.ret.risk_score = 95

\* C12 amended: an item that is not from the known-exploited catalog, names a
\* configured vendor, holds a high-risk term, an RCE key and the phrase "in the
\* wild", and no CVE identifier yields severity HIGH, vulnerability type RCE,
\* exploitation status known_exploited and risk_score 60 + 20 + 20 = 100.
C12_ExampleScore100 ==
    (IsExampleKind(call) /\ call.done) =>
      ExampleOutcome(call.ret) /\ call.ret.risk_score = 100

\* the example of the specification has been scored
C12_Witness ==
    /\ IsExample(call) /\ call.done
    /\ call.config.medium_risk_terms = <<>>
    /\ call.ret.should_create_event /\ call.ret.risk_score = 100

(***************************************************************************)
(* Properties of interleaved runs (SpecConc).                              *)
(***************************************************************************)
\* p's loop is past row j of its batch
Passed(p, j) ==
    \/ run[p].pc = "idle" /\ run[p].outcome = "done"
    \/ run[p].pc \in {"loop", "insert_event", "link"} /\ j < run[p].idx

\* the event ids of the links to raw item id
EventsLinkedTo(id) == { event_sources[i].event_id : i \in LinksTo(id) }

\* once two calls are both past an accepted raw item that both fetched, the
\* item has two links to two events
DoubleProcessed ==
    \A p, q \in Procs :
      p # q =>
        \A j \in 1..Len(run[p].rows), k \in 1..Len(run[q].rows) :
           (/\ run[p].rows[j].id = run[q].rows[k].id
            /\ Passed(p, j) /\ Passed(q, k)
            /\ Accepted(run[p].rows[j], run[p].config)
            /\ Accepted(run[q].rows[k], run[q].config))
           => /\ Cardinality(LinksTo(run[p].rows[j].id)) >= 2
              /\ Cardinality(EventsLinkedTo(run[p].rows[j].id)) >= 2

\* the checkpoint is the max id of the call that ended its loop last,
\* whatever the other call had stored
LastWriterWins ==
    \A p \in Procs :
      (hist.last_commit = p /\ run[p].outcome = "done") =>
         get_meta(meta, CheckpointKey) = Some(IntToStr(MaxIdOf(RowsOf(p))))

\* C6: nothing excludes two interleaved calls from each other.  Two calls
\* that fetched the same accepted item each write an event and a link for it,
\* and the call that ends its loop last writes its own max id over the
\* checkpoint whatever is stored there.
C6_NoMutualExclusion == DoubleProcessed /\ LastWriterWins

\* both calls read the same checkpoint and fetched raw item 1, the item has
\* two links to two events, and the call that committed last left the
\* checkpoint below the one the other call had stored
C6_Witness ==
    /\ run[1].outcome = "done" /\ run[2].outcome = "done"
    /\ run[1].last_id_str = run[2].last_id_str
    /\ run[1].rows[1].id = 1 /\ run[2].rows[1].id = 1
    /\ Cardinality(LinksTo(1)) = 2 /\ Cardinality(EventsLinkedTo(1)) = 2
    /\ snap[1].wrote_meta /\ snap[2].wrote_meta
    /\ Watermark < hist.high_water

(***************************************************************************)
(* Properties of runs with storage faults (SpecFault).                     *)
(***************************************************************************)
Faulted(p) == run[p].pc = "idle" /\ run[p].outcome = "StorageFault"

\* C7: a storage fault in insert_event or link_event_to_raw_item leaves the
\* events and links of the earlier items of the batch in the store and the
\* checkpoint at its value from before the run; a later run that reads that
\* checkpoint fetches the same rows again, and when it is done every item it
\* accepts that the aborted run had linked has a second event and link.
C7_FaultKeepsPartialBatch ==
    \A p \in {1} :
      /\ Faulted(p) =>
           /\ get_meta(meta, CheckpointKey) = snap[p].meta0
           /\ \A id \in snap[p].linked :
                 /\ id > Watermark
                 /\ \E i \in NewLinks(p) :
                       /\ event_sources[i].raw_item_id = id
                       /\ event_sources[i].event_id \in NewEvents(p)
           /\ Cardinality(NewLinks(p)) = Cardinality(snap[p].linked)
           /\ Cardinality(NewEvents(p)) = Cardinality(snap[p].own_events)
           /\ snap[p].linked \subseteq hist.aborted
      /\ (/\ run[p].pc \in {"loop", "insert_event", "link"}
          /\ hist.aborted_rows # <<>>
          /\ run[p].last_id_str = hist.aborted_read) =>
           \A j \in 1..Min2(Len(run[p].rows), Len(hist.aborted_rows)) :
              run[p].rows[j] = hist.aborted_rows[j]
      /\ (run[p].pc = "idle" /\ run[p].outcome = "done") =>
           \A j \in 1..Len(run[p].rows) :
              (/\ run[p].rows[j].id \in hist.aborted
               /\ Accepted(run[p].rows[j], run[p].config))
              => /\ Cardinality(LinksTo(run[p].rows[j].id)) >= 2
                 /\ Cardinality(EventsLinkedTo(run[p].rows[j].id)) >= 2

\* a run after a fault is done and an item of the aborted batch has two events
C7_Witness ==
    /\ run[1].pc = "idle" /\ run[1].outcome = "done"
    /\ run[1].last_id_str = hist.aborted_read
    /\ \E j \in 1..Len(run[1].rows) :
          /\ run[1].rows[j].id \in hist.aborted
          /\ Cardinality(EventsLinkedTo(run[1].rows[j].id)) = 2

(***************************************************************************)
(* Properties of runs on a checkpoint row written from outside (SpecMeta). *)
(***************************************************************************)
\* C8: a stored checkpoint that is no number is treated as absent: the call is
\* not aborted, its batch is the one above 0, and a checkpoint it writes is a
\* number.
C8_NonNumericAsAbsent ==
    \A p \in {1} :
      (/\ snap[p].read_meta /\ run[p].pc = "idle"
       /\ run[p].last_id_str # None /\ ~IntParses(run[p].last_id_str[1]))
      => /\ run[p].outcome \in {"done", "no_items"}
         /\ BatchAbove(p, 0) = { run[p].rows[j] : j \in 1..Len(run[p].rows) }
         /\ snap[p].wrote_meta => IntParses(get_meta(meta, CheckpointKey)[1])

=============================================================================
